---- MODULE Spec2Model ----
(***************************************************************************)
(* luxem-python: the _luxem extension module (src/_luxem.c).               *)
(*                                                                         *)
(* The module wraps three engines of the luxem C library, which it         *)
(* includes as c/luxem_rawread.h and c/luxem_rawwrite.h: the incremental   *)
(* reader, the incremental writer and the ascii16 transcoder.  The wrapper *)
(* (Reader, Writer, translate_to_from_ascii16) is modelled from its        *)
(* source.  The engines' own code is not part of src/, so their behaviour  *)
(* (luxem_rawread_*, luxem_rawwrite_*, luxem_to_ascii16,                   *)
(* luxem_from_ascii16) is modelled from the specification's description,   *)
(* and every such definition says so in its comment.                       *)
(*                                                                         *)
(* Bytes of luxem text are one-character strings; a document, a chunk or a *)
(* token is a sequence of them.  Bytes handed to the transcoder are        *)
(* numbers 0..255.                                                         *)
(***************************************************************************)
EXTENDS Naturals, Sequences, FiniteSets, TLC

VARIABLES
    reader,      \* the Reader object: context (the engine's state), thread_state
    listener,    \* how the seven registered Python callables behave
    events,      \* every invocation of a listener callable, in order
    attempts,    \* number of translate_rawread_* calls made so far
    fed,         \* all bytes handed to Reader.feed so far, in order
    feeds,       \* one record per Reader.feed call that has returned
    rpc,         \* "ready" | "done" | "errored": where the Reader's life is
    stream,      \* a Reader.feed call on a file: its position and its hooks' log
    writer,      \* the Writer object: context (the engine's state), target, file
    wargs,       \* the arguments the Writer was constructed with
    sinkfail,    \* how the callable given as target behaves
    written,     \* what has left the Writer: bytes to the file, calls of the callable
    wlog,        \* one record per Writer method call that has returned
    wpc,         \* "ready" | "errored": where the Writer's life is
    codec        \* a call of to_ascii16 or from_ascii16: argument and results

rvars == <<reader, listener, events, attempts, fed, feeds, rpc, stream>>

wvars == <<writer, wargs, sinkfail, written, wlog, wpc>>

vars == <<rvars, wvars, codec>>

(***************************************************************************)
(* Bounds of the model.                                                    *)
(***************************************************************************)
MaxDocLen == 4      \* total bytes handed to one Reader by feed calls
MaxFeeds == 3       \* feed calls made on one Reader
MaxFailAt == 2      \* the listener may be set to fail at its 1st..MaxFailAt-th call
MaxStreamLen == 4   \* total bytes a file yields to one Reader
MaxRead == 2        \* bytes one physical read of the file returns
MaxCalls == 4       \* method calls made on one Writer
MaxIndent == 2      \* largest indent_multiple a Writer is constructed with
MaxSinkFailAt == 2  \* the target callable may be set to fail at its 1st..n-th call
MaxBytesLen == 3    \* bytes in a string handed to to_ascii16 or from_ascii16

\* The bytes the environment puts in a chunk: every delimiter of the
\* notation, one word character and one whitespace character.
FeedBytes == {"{", "}", "[", "]", "(", ")", ":", ",", "a", " "}

\* The bytes a file holds.
StreamBytes == {"[", "]", "(", ")", ",", "a"}

RECURSIVE SeqsUpTo(_, _)
SeqsUpTo(S, n) ==
    IF n = 0 THEN {<<>>}
    ELSE LET shorter == SeqsUpTo(S, n - 1)
         IN  shorter \cup {Append(s, b) : s \in {t \in shorter : Len(t) = n - 1}, b \in S}

(***************************************************************************)
(* static char const exception_marker: the address that an error's pointer *)
(* is set to when a Python callable failed.                                *)
(***************************************************************************)
exception_marker == "&exception_marker"

NoString == <<>>

(***************************************************************************)
(* The listener.  A Python callable either returns or raises; building the *)
(* argument tuple for it (Py_BuildValue) either succeeds or returns NULL.  *)
(* listener.at = n > 0 makes the n-th translate_rawread_* call fail in the *)
(* way listener.how says; at = 0 is a listener that never fails.           *)
(***************************************************************************)
Listeners ==
    {[at |-> 0, how |-> "never"]}
        \cup [at : 1..MaxFailAt, how : {"raise", "noargs"}]

ListenerOutcome(n) ==
    IF listener.at = n THEN listener.how ELSE "return"

(***************************************************************************)
(* TRANSLATE_VOID_CALLBACK / TRANSLATE_STRING_CALLBACK.                    *)
(* m is the state a callback can touch: the engine's context, the log of   *)
(* listener invocations and the count of translate calls.  The result adds *)
(* the luxem_bool_t the function returns.                                  *)
(***************************************************************************)
ListenerCalled(m, name, string) ==
    [m EXCEPT !.attempts = @ + 1,
              !.events = Append(@, [kind |-> name, string |-> string])]

\* The translate function with the two assignments to the error left out.
translate_rawread_without_marker(m, name, string, outcome) ==
    CASE outcome = "noargs" -> [m EXCEPT !.attempts = @ + 1, !.returned = FALSE]
      [] outcome = "raise" ->
           [ListenerCalled(m, name, string) EXCEPT !.returned = FALSE]
      [] OTHER -> [ListenerCalled(m, name, string) EXCEPT !.returned = TRUE]

translate_rawread(m, name, string, outcome) ==
    CASE outcome = "noargs" ->
           \* if (!arguments) return luxem_false;
           [m EXCEPT !.attempts = @ + 1, !.returned = FALSE]
      [] outcome = "raise" ->
           \* PyEval_CallObject returned NULL:
           \* error->pointer = &exception_marker; error->length = 0;
           [ListenerCalled(m, name, string) EXCEPT
                !.context.error = [pointer |-> exception_marker, length |-> 0],
                !.returned = FALSE]
      [] OTHER -> [ListenerCalled(m, name, string) EXCEPT !.returned = TRUE]

\* The translate function of object_end registered for array_end as well.
TRANSLATE_VOID_CALLBACK_misregistered(m, name) ==
    translate_rawread(m, IF name = "array_end" THEN "object_end" ELSE name,
                      NoString, ListenerOutcome(m.attempts + 1))

TRANSLATE_VOID_CALLBACK(m, name) ==
    translate_rawread(m, name, NoString, ListenerOutcome(m.attempts + 1))

\* The translate function handing its callable a string of length 0.
TRANSLATE_STRING_CALLBACK_without_string(m, name, string) ==
    translate_rawread(m, name, NoString, ListenerOutcome(m.attempts + 1))

TRANSLATE_STRING_CALLBACK(m, name, string) ==
    translate_rawread(m, name, string, ListenerOutcome(m.attempts + 1))

(***************************************************************************)
(* The reader engine, luxem_rawread_*.  Its code is not under src/; what   *)
(* follows is the state machine the specification describes: a nesting     *)
(* stack, an awaiting-kind, a pending token that may span feed calls and a *)
(* cumulative position.                                                    *)
(*                                                                         *)
(*   state       awaiting                                                  *)
(*   "element"   Type|Value at the start of a top-level or array entry     *)
(*   "key"       Key, in an object                                         *)
(*   "keyed"     Type|Value, after a key                                   *)
(*   "typed"     Value, after a type                                       *)
(*   "after"     the separator or closing delimiter that follows a value   *)
(*   "in_key", "in_type", "in_prim"   token accumulation                   *)
(***************************************************************************)
Whitespace == {" ", "\t", "\n"}
Delimiters == {"{", "}", "[", "]", "(", ")", ":", ","}

IsWord(b) == b \notin Whitespace /\ b \notin Delimiters

ErrorString(text) == [pointer |-> text, length |-> Len(text)]

NoError == [pointer |-> "NULL", length |-> 0]

luxem_rawread_construct ==
    [stack |-> <<>>, state |-> "element", token |-> <<>>, position |-> 0,
     error |-> NoError]

luxem_rawread_get_error(context) == context.error

luxem_rawread_get_position(context) == context.position

Top(stack) == IF stack = <<>> THEN "none" ELSE stack[Len(stack)]

Pop(stack) == SubSeq(stack, 1, Len(stack) - 1)

AfterSeparator(stack) == IF Top(stack) = "object" THEN "key" ELSE "element"

\* The engine fails with a message of its own.
rawread_fail(m, text) ==
    [m EXCEPT !.context.error = ErrorString(text), !.returned = FALSE]

\* After a callback: when it returned luxem_false the engine stops and leaves
\* the error as the callback left it; otherwise it moves on.
rawread_moved(r, state, stack) ==
    IF r.returned
    THEN [r EXCEPT !.context.state = state, !.context.stack = stack,
                   !.context.token = <<>>]
    ELSE r

rawread_void(m, name, state, stack) ==
    rawread_moved(TRANSLATE_VOID_CALLBACK(m, name), state, stack)

rawread_string(m, name, state) ==
    rawread_moved(TRANSLATE_STRING_CALLBACK(m, name, m.context.token),
                  state, m.context.stack)

rawread_close(m, b) ==
    CASE ~m.returned -> m
      [] b = "}" /\ Top(m.context.stack) = "object" ->
           rawread_void(m, "object_end", "after", Pop(m.context.stack))
      [] b = "]" /\ Top(m.context.stack) = "array" ->
           rawread_void(m, "array_end", "after", Pop(m.context.stack))
      [] OTHER -> rawread_fail(m, "Unexpected closing delimiter")

\* One byte through the state machine.
rawread_byte(m, b) ==
    CASE m.context.state \in {"element", "keyed", "typed"} ->
           CASE b \in Whitespace -> m
             [] b = "{" ->
                  rawread_void(m, "object_begin", "key",
                               Append(m.context.stack, "object"))
             [] b = "[" ->
                  rawread_void(m, "array_begin", "element",
                               Append(m.context.stack, "array"))
             [] b = "(" /\ m.context.state # "typed" ->
                  [m EXCEPT !.context.state = "in_type", !.context.token = <<>>]
             [] b = "(" -> rawread_fail(m, "A value already has a type")
             [] b = "]" /\ m.context.state = "element" -> rawread_close(m, b)
             [] IsWord(b) ->
                  [m EXCEPT !.context.state = "in_prim", !.context.token = <<b>>]
             [] OTHER -> rawread_fail(m, "Expected a value")
      [] m.context.state = "key" ->
           CASE b \in Whitespace -> m
             [] b = "}" -> rawread_close(m, b)
             [] IsWord(b) ->
                  [m EXCEPT !.context.state = "in_key", !.context.token = <<b>>]
             [] OTHER -> rawread_fail(m, "Expected a key")
      [] m.context.state = "in_key" ->
           CASE b = ":" -> rawread_string(m, "key", "keyed")
             [] IsWord(b) -> [m EXCEPT !.context.token = Append(@, b)]
             [] OTHER -> rawread_fail(m, "Expected : after a key")
      [] m.context.state = "in_type" ->
           CASE b = ")" -> rawread_string(m, "type", "typed")
             [] IsWord(b) -> [m EXCEPT !.context.token = Append(@, b)]
             [] OTHER -> rawread_fail(m, "Expected ) after a type")
      [] m.context.state = "in_prim" ->
           CASE IsWord(b) -> [m EXCEPT !.context.token = Append(@, b)]
             [] b \in Whitespace -> rawread_string(m, "primitive", "after")
             [] b = "," ->
                  rawread_string(m, "primitive", AfterSeparator(m.context.stack))
             [] b \in {"}", "]"} ->
                  rawread_close(rawread_string(m, "primitive", "after"), b)
             [] OTHER -> rawread_fail(m, "Unexpected delimiter in a value")
      [] OTHER -> \* "after"
           CASE b \in Whitespace -> m
             [] b = "," ->
                  [m EXCEPT !.context.state = AfterSeparator(m.context.stack)]
             [] b \in {"}", "]"} -> rawread_close(m, b)
             [] OTHER -> rawread_fail(m, "Expected , after a value")

\* A byte that went through is consumed: the position and the count of
\* this call move by one.  A byte that fails is not consumed.
rawread_consumed(r) ==
    IF r.returned
    THEN [r EXCEPT !.context.position = @ + 1, !.eaten = @ + 1]
    ELSE r

\* The bytes of data from index i on, one at a time, until one fails.
RECURSIVE rawread_bytes(_, _, _)
rawread_bytes(m, data, i) ==
    CASE ~m.returned -> m
      [] i > Len(data) -> m
      [] OTHER -> rawread_bytes(rawread_consumed(rawread_byte(m, data[i])),
                                data, i + 1)

\* finish: what is pending must resolve to a complete, balanced document.
\* An unterminated token or an open structure is an error; a word that the
\* end of the input terminates is a complete primitive.
rawread_finish(r, finish) ==
    CASE ~(r.returned /\ finish) -> r
      [] r.context.state \in {"in_key", "in_type"} ->
           rawread_fail(r, "End reached in an unterminated token")
      [] r.context.stack # <<>> ->
           rawread_fail(r, "End reached in an open structure")
      [] r.context.state = "typed" ->
           rawread_fail(r, "End reached where a value was expected")
      [] r.context.state = "in_prim" -> rawread_string(r, "primitive", "after")
      [] OTHER -> r

\* luxem_rawread_feed(context, data, &eaten, finish): the result's returned
\* is its luxem_bool_t and eaten the count it stores.
luxem_rawread_feed(m, data, finish) ==
    rawread_finish(rawread_bytes([m EXCEPT !.returned = TRUE, !.eaten = 0],
                                 data, 1),
                   finish)

(***************************************************************************)
(* Reader_new: a fresh context with the seven translate functions          *)
(* registered as its callbacks, and no saved thread state.                 *)
(***************************************************************************)
Reader_new == [context |-> luxem_rawread_construct, thread_state |-> "NULL"]

(***************************************************************************)
(* format_context_error: the Python exception that is pending when feed    *)
(* returns NULL.  An error whose pointer is not the marker becomes a       *)
(* ValueError "<message> [offset <position>]"; the marker leaves the       *)
(* exception the callable raised in place.  asserted is whether the        *)
(* function's assert on the error's length holds.                          *)
(***************************************************************************)
DescribedError(error, position) ==
    [type |-> "ValueError", message |-> error.pointer,
     message_length |-> error.length, offset |-> position,
     asserted |-> error.length > 0]

\* Pass through python exception
PassedThrough(error) ==
    [type |-> "raised by the callable", message |-> "", message_length |-> 0,
     offset |-> 0, asserted |-> error.length = 0]

NoException ==
    [type |-> "none", message |-> "", message_length |-> 0, offset |-> 0,
     asserted |-> TRUE]

\* format_context_error with the position left out of what it formats.
format_context_error_without_position(context) ==
    IF luxem_rawread_get_error(context).pointer # exception_marker
    THEN DescribedError(luxem_rawread_get_error(context), 0)
    ELSE PassedThrough(luxem_rawread_get_error(context))

format_context_error(context) ==
    IF luxem_rawread_get_error(context).pointer # exception_marker
    THEN DescribedError(luxem_rawread_get_error(context),
                        luxem_rawread_get_position(context))
    ELSE PassedThrough(luxem_rawread_get_error(context))

(***************************************************************************)
(* Reader_feed, the branch for a bytes argument.  The result is the Reader *)
(* after the call, the listener's log, and what Python sees: value is      *)
(* "int" with the eaten count, or "NULL" with the pending exception.       *)
(***************************************************************************)
\* The engine handed a context whose position starts again at every call.
Machine_position_restarted(context, heard) ==
    [context |-> [context EXCEPT !.position = 0], events |-> heard.events,
     attempts |-> heard.attempts, returned |-> TRUE, eaten |-> 0]

Machine(context, heard) ==
    [context |-> context, events |-> heard.events, attempts |-> heard.attempts,
     returned |-> TRUE, eaten |-> 0]

\* Reader_feed returning the context's position where it returns eaten.
Reader_feed_returns_position(self, m) ==
    [reader |-> [self EXCEPT !.context = m.context],
     events |-> m.events, attempts |-> m.attempts,
     value |-> IF m.returned THEN "int" ELSE "NULL",
     eaten |-> IF m.returned THEN luxem_rawread_get_position(m.context) ELSE 0,
     exception |-> IF m.returned THEN NoException
                   ELSE format_context_error(m.context)]

Reader_feed_returns(self, m) ==
    [reader |-> [self EXCEPT !.context = m.context],
     events |-> m.events, attempts |-> m.attempts,
     \* return WRAP_INT_FROM_SIZET(eaten);
     value |-> IF m.returned THEN "int" ELSE "NULL",
     eaten |-> IF m.returned THEN m.eaten ELSE 0,
     \* format_context_error(self->context); return NULL;
     exception |-> IF m.returned THEN NoException
                   ELSE format_context_error(m.context)]

\* Reader_feed with the finish argument never read: it keeps its default.
Reader_feed_default_finish(self, heard, data, finish) ==
    Reader_feed_returns(self,
        luxem_rawread_feed(Machine(self.context, heard), data, TRUE))

Reader_feed(self, heard, data, finish) ==
    Reader_feed_returns(self,
        luxem_rawread_feed(Machine(self.context, heard), data, finish))

(***************************************************************************)
(* feed_unlock_gil / feed_lock_gil: the hooks Reader_feed hands to         *)
(* luxem_rawread_feed_file.  The result is the Reader after the hook and   *)
(* whether the hook's assert held.                                         *)
(***************************************************************************)
feed_unlock_gil(self) ==
    [self |-> [self EXCEPT !.thread_state = "saved"],   \* PyEval_SaveThread()
     asserted |-> self.thread_state = "NULL"]

\* feed_unlock_gil in the place of feed_lock_gil: the thread is saved again.
feed_lock_gil_saves_thread(self) ==
    [self |-> [self EXCEPT !.thread_state = "saved"],
     asserted |-> self.thread_state # "NULL"]

\* feed_lock_gil without its last assignment.
feed_lock_gil_keeps_thread_state(self) ==
    [self |-> self, asserted |-> self.thread_state # "NULL"]

feed_lock_gil(self) ==
    [self |-> [self EXCEPT !.thread_state = "NULL"],    \* PyEval_RestoreThread
     asserted |-> self.thread_state # "NULL"]

(***************************************************************************)
(* The target callable of a Writer.  sinkfail.at = n > 0 makes the n-th    *)
(* translate_rawwrite_write call fail in the way sinkfail.how says.        *)
(***************************************************************************)
SinkFails ==
    {[at |-> 0, how |-> "never"]}
        \cup [at : 1..MaxSinkFailAt, how : {"raise", "noargs"}]

SinkOutcome(n) == IF sinkfail.at = n THEN sinkfail.how ELSE "return"

SinkCalled(W, string) ==
    [W EXCEPT !.written.attempts = @ + 1, !.written.calls = Append(@, string)]

(***************************************************************************)
(* translate_rawwrite_write: the write callback the Writer registers when  *)
(* its target is a callable.  W is the state it can touch: the Writer and  *)
(* what has been written; the result adds the luxem_bool_t it returns.     *)
(***************************************************************************)
\* translate_rawwrite_write with the two assignments to the error left out.
translate_rawwrite_write_without_marker(W, string, outcome) ==
    CASE outcome = "noargs" ->
           [W EXCEPT !.written.attempts = @ + 1, !.returned = FALSE]
      [] outcome = "raise" -> [SinkCalled(W, string) EXCEPT !.returned = FALSE]
      [] OTHER -> [SinkCalled(W, string) EXCEPT !.returned = TRUE]

translate_rawwrite_write(W, string, outcome) ==
    CASE outcome = "noargs" ->
           \* if (!arguments) return luxem_false;
           [W EXCEPT !.written.attempts = @ + 1, !.returned = FALSE]
      [] outcome = "raise" ->
           \* PyEval_CallObject returned NULL:
           \* error->pointer = &exception_marker; error->length = 0;
           [SinkCalled(W, string) EXCEPT
                !.self.context.error = [pointer |-> exception_marker, length |-> 0],
                !.returned = FALSE]
      [] OTHER -> [SinkCalled(W, string) EXCEPT !.returned = TRUE]

(***************************************************************************)
(* The writer engine, luxem_rawwrite_*.  Its code is not under src/; what  *)
(* follows is what the specification describes: a nesting stack, an        *)
(* awaiting-kind per level, the pretty-print configuration and one sink.   *)
(*                                                                         *)
(*   state       awaiting                                                  *)
(*   "element"   Type|Value at the start of a top-level or array entry     *)
(*   "key"       Key, in an object                                         *)
(*   "keyed"     Type|Value, after a key                                   *)
(*   "typed"     Value, after a type                                       *)
(*                                                                         *)
(* Compact output is the minimum the reader needs: { } [ ] around the      *)
(* entries, key:, (type), and a comma after every value.  Pretty output    *)
(* adds the indentation before an entry and before a closing delimiter, a  *)
(* space after key: and after (type), and a line break after every comma   *)
(* and every opening delimiter.                                            *)
(***************************************************************************)
luxem_rawwrite_construct ==
    [out |-> "none", buffer |-> <<>>, stack |-> <<>>, state |-> "element",
     pretty |-> FALSE, indent |-> "\t", multiple |-> 0, error |-> NoError]

luxem_rawwrite_set_buffer_out(context) == [context EXCEPT !.out = "buffer"]

luxem_rawwrite_set_file_out(context) == [context EXCEPT !.out = "file"]

luxem_rawwrite_set_write_callback(context) == [context EXCEPT !.out = "callback"]

luxem_rawwrite_set_pretty(context, spacer, multiple) ==
    [context EXCEPT !.pretty = TRUE, !.indent = spacer, !.multiple = multiple]

luxem_rawwrite_get_error(context) == context.error

rawwrite_fail(W, text) ==
    [W EXCEPT !.self.context.error = ErrorString(text), !.returned = FALSE]

\* One byte run to the sink.
rawwrite_write(W, string) ==
    CASE W.self.context.out = "buffer" ->
           [W EXCEPT !.self.context.buffer = @ \o string]
      [] W.self.context.out = "file" -> [W EXCEPT !.written.file = @ \o string]
      [] OTHER ->
           translate_rawwrite_write(W, string, SinkOutcome(W.written.attempts + 1))

\* The byte runs of one operation, in order, until the sink fails.
RECURSIVE rawwrite_runs(_, _, _)
rawwrite_runs(W, runs, i) ==
    CASE ~W.returned -> W
      [] i > Len(runs) -> W
      [] runs[i] = <<>> -> rawwrite_runs(W, runs, i + 1)
      [] OTHER -> rawwrite_runs(rawwrite_write(W, runs[i]), runs, i + 1)

rawwrite_moved(W, stack, state) ==
    IF W.returned
    THEN [W EXCEPT !.self.context.stack = stack, !.self.context.state = state]
    ELSE W

Indentation(context, depth) ==
    IF context.pretty
    THEN [i \in 1..(context.multiple * depth) |-> context.indent]
    ELSE <<>>

\* The indentation of an entry, written where the entry starts.
Lead(context) ==
    IF context.state \in {"element", "key"}
    THEN Indentation(context, Len(context.stack))
    ELSE <<>>

Space(context) == IF context.pretty THEN <<" ">> ELSE <<>>

LineBreak(context) == IF context.pretty THEN <<"\n">> ELSE <<>>

ValueAwaited(context) == context.state \in {"element", "keyed", "typed"}

luxem_rawwrite_object_begin(W) ==
    IF ~ValueAwaited(W.self.context)
    THEN rawwrite_fail(W, "Expected a key")
    ELSE rawwrite_moved(
             rawwrite_runs(W, <<Lead(W.self.context), <<"{">>,
                                LineBreak(W.self.context)>>, 1),
             Append(W.self.context.stack, "object"), "key")

luxem_rawwrite_array_begin(W) ==
    IF ~ValueAwaited(W.self.context)
    THEN rawwrite_fail(W, "Expected a key")
    ELSE rawwrite_moved(
             rawwrite_runs(W, <<Lead(W.self.context), <<"[">>,
                                LineBreak(W.self.context)>>, 1),
             Append(W.self.context.stack, "array"), "element")

rawwrite_end(W, kind, state, delimiter) ==
    CASE W.self.context.stack = <<>> ->
           rawwrite_fail(W, "No structure is open")
      [] Top(W.self.context.stack) # kind ->
           rawwrite_fail(W, "The open structure is of the other kind")
      [] W.self.context.state # state ->
           rawwrite_fail(W, "Expected a value")
      [] OTHER ->
           rawwrite_moved(
               rawwrite_runs(W,
                   <<Indentation(W.self.context, Len(W.self.context.stack) - 1),
                     <<delimiter>>, <<",">>, LineBreak(W.self.context)>>, 1),
               Pop(W.self.context.stack),
               AfterSeparator(Pop(W.self.context.stack)))

luxem_rawwrite_object_end(W) == rawwrite_end(W, "object", "key", "}")

luxem_rawwrite_array_end(W) == rawwrite_end(W, "array", "element", "]")

luxem_rawwrite_key(W, string) ==
    IF W.self.context.state # "key"
    THEN rawwrite_fail(W, "A key is not expected here")
    ELSE rawwrite_moved(
             rawwrite_runs(W, <<Lead(W.self.context), string, <<":">>,
                                Space(W.self.context)>>, 1),
             W.self.context.stack, "keyed")

luxem_rawwrite_type(W, string) ==
    IF W.self.context.state \notin {"element", "keyed"}
    THEN rawwrite_fail(W, "A type is not expected here")
    ELSE rawwrite_moved(
             rawwrite_runs(W, <<Lead(W.self.context), <<"(">>, string, <<")">>,
                                Space(W.self.context)>>, 1),
             W.self.context.stack, "typed")

luxem_rawwrite_primitive(W, string) ==
    IF ~ValueAwaited(W.self.context)
    THEN rawwrite_fail(W, "Expected a key")
    ELSE rawwrite_moved(
             rawwrite_runs(W, <<Lead(W.self.context), string, <<",">>,
                                LineBreak(W.self.context)>>, 1),
             W.self.context.stack, AfterSeparator(W.self.context.stack))

\* luxem_rawwrite_buffer_render: a copy of everything the buffer holds, or
\* NULL with an error when the copy cannot be made.
luxem_rawwrite_buffer_render(context, rendered) ==
    IF rendered
    THEN [pointer |-> context.buffer, returned |-> TRUE, error |-> context.error]
    ELSE [pointer |-> <<>>, returned |-> FALSE,
          error |-> ErrorString("Failed to allocate memory")]

(***************************************************************************)
(* Writer_new and Writer_init.  target is "NULL" when the argument is      *)
(* absent, "file" when it passes WRAP_FILE_CHECK and "callable" otherwise. *)
(***************************************************************************)
Writer_new ==
    [context |-> luxem_rawwrite_construct, target |-> "NULL", file |-> "NULL"]

\* Writer_init without the else before luxem_rawwrite_set_buffer_out.
Writer_sink_buffer_last(self, target) ==
    CASE target = "NULL" ->
           [self EXCEPT !.context = luxem_rawwrite_set_buffer_out(@)]
      [] target = "file" ->
           [self EXCEPT !.target = target, !.file = "FILE",
                        !.context = luxem_rawwrite_set_buffer_out(
                                        luxem_rawwrite_set_file_out(@))]
      [] OTHER ->
           [self EXCEPT !.target = target,
                        !.context = luxem_rawwrite_set_buffer_out(
                                        luxem_rawwrite_set_write_callback(@))]

Writer_sink(self, target) ==
    CASE target = "NULL" ->
           [self EXCEPT !.context = luxem_rawwrite_set_buffer_out(@)]
      [] target = "file" ->
           [self EXCEPT !.target = target, !.file = "FILE",
                        !.context = luxem_rawwrite_set_file_out(@)]
      [] OTHER ->
           [self EXCEPT !.target = target,
                        !.context = luxem_rawwrite_set_write_callback(@)]

\* Writer_init without its test of pretty.
Writer_init_always_pretty(self, target, pretty, use_spaces, indent_multiple) ==
    [Writer_sink(self, target) EXCEPT
         !.context = luxem_rawwrite_set_pretty(
                         @, IF use_spaces THEN " " ELSE "\t", indent_multiple)]

\* Writer_init with the two indent characters exchanged.
Writer_init_exchanged_indent(self, target, pretty, use_spaces, indent_multiple) ==
    IF pretty
    THEN [Writer_sink(self, target) EXCEPT
              !.context = luxem_rawwrite_set_pretty(
                              @, IF use_spaces THEN "\t" ELSE " ", indent_multiple)]
    ELSE Writer_sink(self, target)

Writer_init(self, target, pretty, use_spaces, indent_multiple) ==
    IF pretty
    THEN [Writer_sink(self, target) EXCEPT
              !.context = luxem_rawwrite_set_pretty(
                              @, IF use_spaces THEN " " ELSE "\t", indent_multiple)]
    ELSE Writer_sink(self, target)

(***************************************************************************)
(* translate_void_method / translate_string_method: what a Writer method   *)
(* returns.  value is "self" (the writer, for chaining) or "NULL" with the *)
(* pending exception; failed is whether the engine reported an error.      *)
(***************************************************************************)
WriterMachine(self) == [self |-> self, written |-> written, returned |-> TRUE]

WriterException(error) ==
    IF error.pointer # exception_marker
    THEN [type |-> "ValueError", message |-> error.pointer,
          message_length |-> error.length, asserted |-> error.length > 0]
    ELSE \* Pass through python exception
         [type |-> "raised by the callable", message |-> "",
          message_length |-> 0, asserted |-> error.length = 0]

NoWriterException ==
    [type |-> "none", message |-> "", message_length |-> 0, asserted |-> TRUE]

TypeError(text) ==
    [type |-> "TypeError", message |-> text, message_length |-> Len(text),
     asserted |-> TRUE]

\* A method that returns the writer whatever the engine reported.
method_returns_unchecked(W) ==
    [self |-> W.self, written |-> W.written, value |-> "self",
     bytes |-> <<>>, exception |-> NoWriterException, failed |-> ~W.returned]

method_returns(W) ==
    [self |-> W.self, written |-> W.written,
     value |-> IF W.returned THEN "self" ELSE "NULL",
     bytes |-> <<>>,
     exception |-> IF W.returned THEN NoWriterException
                   ELSE WriterException(luxem_rawwrite_get_error(W.self.context)),
     failed |-> ~W.returned]

rawwrite_void(W, method) ==
    CASE method = "object_begin" -> luxem_rawwrite_object_begin(W)
      [] method = "object_end" -> luxem_rawwrite_object_end(W)
      [] method = "array_begin" -> luxem_rawwrite_array_begin(W)
      [] OTHER -> luxem_rawwrite_array_end(W)

rawwrite_string(W, method, string) ==
    CASE method = "key" -> luxem_rawwrite_key(W, string)
      [] method = "type" -> luxem_rawwrite_type(W, string)
      [] OTHER -> luxem_rawwrite_primitive(W, string)

translate_void_method_unchecked(self, method) ==
    method_returns_unchecked(rawwrite_void(WriterMachine(self), method))

translate_void_method(self, method) ==
    method_returns(rawwrite_void(WriterMachine(self), method))

translate_string_method_unchecked(self, argument, method) ==
    method_returns_unchecked(
        rawwrite_string(WriterMachine(self), method, argument.bytes))

translate_string_method(self, argument, method) ==
    IF argument.kind = "string"      \* WRAP_STRING_CHECK(argument)
    THEN method_returns(rawwrite_string(WriterMachine(self), method, argument.bytes))
    ELSE [self |-> self, written |-> written, value |-> "NULL", bytes |-> <<>>,
          exception |-> TypeError("requires a single string argument."),
          failed |-> FALSE]

Writer_object_begin(self) == translate_void_method(self, "object_begin")

Writer_object_end(self) == translate_void_method(self, "object_end")

Writer_array_begin(self) == translate_void_method(self, "array_begin")

Writer_array_end(self) == translate_void_method(self, "array_end")

Writer_key(self, argument) == translate_string_method(self, argument, "key")

Writer_type(self, argument) == translate_string_method(self, argument, "type")

Writer_primitive(self, argument) ==
    translate_string_method(self, argument, "primitive")

(***************************************************************************)
(* Writer_dump.  rendered is whether luxem_rawwrite_buffer_render can make *)
(* its copy.                                                               *)
(***************************************************************************)
dump_returns(self, r) ==
    [self |-> self, written |-> written,
     value |-> IF r.returned THEN "bytes" ELSE "NULL",
     bytes |-> r.pointer,
     exception |-> IF r.returned THEN NoWriterException
                   ELSE [type |-> "ValueError", message |-> r.error.pointer,
                         message_length |-> r.error.length,
                         asserted |-> r.error.length > 0],
     failed |-> FALSE]

\* Writer_dump without its test of the target.
Writer_dump_untested_target(self, rendered) ==
    dump_returns(self, luxem_rawwrite_buffer_render(self.context, rendered))

\* Writer_dump that hands the buffer over and leaves it empty.
Writer_dump_emptying(self, rendered) ==
    IF self.target # "NULL"
    THEN [self |-> self, written |-> written, value |-> "NULL", bytes |-> <<>>,
          exception |-> TypeError("dump can only be used if not using a custom serialize callback"),
          failed |-> FALSE]
    ELSE dump_returns([self EXCEPT !.context.buffer = <<>>],
                      luxem_rawwrite_buffer_render(self.context, rendered))

Writer_dump(self, rendered) ==
    IF self.target # "NULL"
    THEN [self |-> self, written |-> written, value |-> "NULL", bytes |-> <<>>,
          exception |-> TypeError("dump can only be used if not using a custom serialize callback"),
          failed |-> FALSE]
    ELSE dump_returns(self, luxem_rawwrite_buffer_render(self.context, rendered))

(***************************************************************************)
(* Strings of the host.  The module compiles for Python 2, where a string  *)
(* is its bytes, and for Python 3, where a string is text: WRAP_STRING_TO  *)
(* hands its UTF-8 encoding to the engine and WRAP_STRING_FROM makes a     *)
(* string of bytes only when they are valid UTF-8.                         *)
(***************************************************************************)
IsContinuation(b) == b >= 128 /\ b <= 191

\* Whether the bytes of s from index i on are well-formed UTF-8.
RECURSIVE IsUtf8From(_, _)
IsUtf8From(s, i) ==
    CASE i > Len(s) -> TRUE
      [] s[i] <= 127 -> IsUtf8From(s, i + 1)
      [] s[i] >= 194 /\ s[i] <= 223 ->
           /\ i + 1 <= Len(s)
           /\ IsContinuation(s[i + 1])
           /\ IsUtf8From(s, i + 2)
      [] s[i] >= 224 /\ s[i] <= 239 ->
           /\ i + 2 <= Len(s)
           /\ IsContinuation(s[i + 1])
           /\ IsContinuation(s[i + 2])
           /\ (s[i] = 224 => s[i + 1] >= 160)
           /\ (s[i] = 237 => s[i + 1] <= 159)
           /\ IsUtf8From(s, i + 3)
      [] s[i] >= 240 /\ s[i] <= 244 ->
           /\ i + 3 <= Len(s)
           /\ IsContinuation(s[i + 1])
           /\ IsContinuation(s[i + 2])
           /\ IsContinuation(s[i + 3])
           /\ (s[i] = 240 => s[i + 1] >= 144)
           /\ (s[i] = 244 => s[i + 1] <= 143)
           /\ IsUtf8From(s, i + 4)
      [] OTHER -> FALSE

IsUtf8(s) == IsUtf8From(s, 1)

\* WRAP_STRING_CHECK(o)
WRAP_STRING_CHECK(o) == o.kind \in {"str", "unencodable str"}

\* WRAP_STRING_FROM(pointer, size): the string, or NULL with a
\* UnicodeDecodeError pending.
WRAP_STRING_FROM(py, bytes) ==
    IF py = 2 \/ IsUtf8(bytes)
    THEN [value |-> "str", bytes |-> bytes, exception |-> "none", message |-> ""]
    ELSE [value |-> "NULL", bytes |-> <<>>, exception |-> "UnicodeDecodeError",
          message |-> ""]

(***************************************************************************)
(* The transcoder, luxem_to_ascii16 / luxem_from_ascii16.  Its code is not *)
(* under src/; this is the mapping the specification describes: every byte *)
(* becomes two hexadecimal digits, and decoding is the exact inverse.      *)
(* Characters are their ASCII codes.                                       *)
(***************************************************************************)
HexDigit(n) == IF n < 10 THEN 48 + n ELSE 97 + (n - 10)

IsHexDigit(ch) == (ch >= 48 /\ ch <= 57) \/ (ch >= 97 /\ ch <= 102)

HexValue(ch) == IF ch <= 57 THEN ch - 48 ELSE ch - 97 + 10

RECURSIVE to_ascii16_from(_, _)
to_ascii16_from(bytes, i) ==
    IF i > Len(bytes) THEN <<>>
    ELSE <<HexDigit(bytes[i] \div 16), HexDigit(bytes[i] % 16)>>
             \o to_ascii16_from(bytes, i + 1)

\* The result of either function: out is the string returned, or returned
\* is FALSE and error holds the message, offset the place it is about.
luxem_to_ascii16(bytes) ==
    [returned |-> TRUE, out |-> to_ascii16_from(bytes, 1), error |-> NoError,
     offset |-> 0]

\* The message of a transcoder error names the offset it is about.
TranscoderMessage(text, offset) == text \o " [offset " \o ToString(offset) \o "]"

TranscoderError(text, offset) ==
    [returned |-> FALSE, out |-> <<>>,
     error |-> ErrorString(TranscoderMessage(text, offset)), offset |-> offset]

RECURSIVE from_ascii16_from(_, _, _)
from_ascii16_from(chars, i, out) ==
    CASE i > Len(chars) ->
           [returned |-> TRUE, out |-> out, error |-> NoError, offset |-> 0]
      [] ~IsHexDigit(chars[i]) ->
           TranscoderError("Invalid ascii16 character", i - 1)
      [] i = Len(chars) ->
           TranscoderError("Incomplete ascii16 pair", i - 1)
      [] ~IsHexDigit(chars[i + 1]) ->
           TranscoderError("Invalid ascii16 character", i)
      [] OTHER ->
           from_ascii16_from(chars, i + 2,
               Append(out, 16 * HexValue(chars[i]) + HexValue(chars[i + 1])))

luxem_from_ascii16(chars) == from_ascii16_from(chars, 1, <<>>)

(***************************************************************************)
(* translate_to_from_ascii16: what to_ascii16(argument) and                *)
(* from_ascii16(argument) return to Python.                                *)
(***************************************************************************)
ascii16_function(function, bytes) ==
    IF function = "luxem_to_ascii16"
    THEN luxem_to_ascii16(bytes)
    ELSE luxem_from_ascii16(bytes)

CodecResult(value, bytes, exception) ==
    [value |-> value, bytes |-> bytes, exception |-> exception, message |-> ""]

\* PyErr_SetObject(PyExc_ValueError, WRAP_STRING_FROM(error.pointer, error.length))
CodecValueError(error) ==
    [CodecResult("NULL", <<>>, "ValueError") EXCEPT !.message = error.pointer]

ascii16_returns(py, out) ==
    IF ~out.returned
    THEN CodecValueError(out.error)
    ELSE WRAP_STRING_FROM(py, out.out)

\* The result wrapped with the length of the argument, not of the result.
ascii16_returns_argument_length(py, out, length) ==
    IF ~out.returned
    THEN CodecValueError(out.error)
    ELSE WRAP_STRING_FROM(py, SubSeq(out.out, 1, length))

translate_to_from_ascii16_argument_length(py, argument, function) ==
    CASE ~WRAP_STRING_CHECK(argument) -> CodecResult("NULL", <<>>, "TypeError")
      [] argument.kind = "unencodable str" -> CodecResult("undefined", <<>>, "none")
      [] OTHER ->
           ascii16_returns_argument_length(py,
               ascii16_function(function, argument.bytes), Len(argument.bytes))

translate_to_from_ascii16(py, argument, function) ==
    CASE ~WRAP_STRING_CHECK(argument) ->
           CodecResult("NULL", <<>>, "TypeError")
      [] argument.kind = "unencodable str" ->
           \* PyUnicode_AsUTF8AndSize returned NULL and left the size unset:
           \* the engine reads through them, which is undefined.
           CodecResult("undefined", <<>>, "none")
      [] OTHER -> ascii16_returns(py, ascii16_function(function, argument.bytes))

translate_to_ascii16(py, argument) ==
    translate_to_from_ascii16(py, argument, "luxem_to_ascii16")

translate_from_ascii16(py, argument) ==
    translate_to_from_ascii16(py, argument, "luxem_from_ascii16")

(***************************************************************************)
(* Specification Spec: one Reader, fed bytes chunk by chunk.               *)
(***************************************************************************)
ReaderStart ==
    /\ reader = Reader_new
    /\ events = <<>>
    /\ attempts = 0
    /\ fed = <<>>
    /\ feeds = <<>>
    /\ rpc = "ready"
    /\ stream = [pc |-> "idle", hooks |-> <<>>, reads |-> 0, data |-> <<>>,
                 read |-> "none", asserted |-> TRUE, value |-> "none",
                 exception |-> NoException]

NothingWritten == [file |-> <<>>, calls |-> <<>>, attempts |-> 0]

\* No Writer has been constructed.
NoWriter ==
    /\ writer = Writer_new
    /\ wargs = [target |-> "NULL", pretty |-> FALSE, use_spaces |-> FALSE,
                indent_multiple |-> 1]
    /\ sinkfail = [at |-> 0, how |-> "never"]
    /\ written = NothingWritten
    /\ wlog = <<>>
    /\ wpc = "none"

NoCall == CodecResult("none", <<>>, "none")

NoCodec ==
    codec = [py |-> 3, argument |-> [kind |-> "none", bytes |-> <<>>],
             pc |-> "none", encoded |-> NoCall, decoded |-> NoCall]

Init ==
    /\ ReaderStart
    /\ listener \in Listeners
    /\ NoWriter
    /\ NoCodec

\* What the listener has been through so far.
Heard == [events |-> events, attempts |-> attempts]

FeedReturns(r, data, finish) ==
    /\ reader' = r.reader
    /\ events' = r.events
    /\ attempts' = r.attempts
    /\ feeds' = Append(feeds,
           [data |-> data, finish |-> finish, value |-> r.value,
            eaten |-> r.eaten, exception |-> r.exception,
            open_before |-> reader.context.stack # <<>>,
            position_before |-> reader.context.position])
    /\ rpc' = CASE r.value = "NULL" -> "errored"
                [] finish -> "done"
                [] OTHER -> "ready"

\* reader.feed(data, finish): after an error, or after a feed that finished
\* the document, the instance is not used again.
Feed(data, finish) ==
    /\ rpc = "ready"
    /\ Len(feeds) < MaxFeeds
    /\ FeedReturns(Reader_feed(reader, Heard, data, finish), data, finish)
    /\ fed' = fed \o data
    /\ UNCHANGED <<listener, stream, wvars, codec>>

FeedMore ==
    \E data \in SeqsUpTo(FeedBytes, MaxDocLen - Len(fed)) : Feed(data, FALSE)

FeedLast ==
    \E data \in SeqsUpTo(FeedBytes, MaxDocLen - Len(fed)) : Feed(data, TRUE)

Next == FeedMore \/ FeedLast

Spec == Init /\ [][Next]_vars

(***************************************************************************)
(* Specification SpecStream: Reader_feed, the branch for a file argument.  *)
(* luxem_rawread_feed_file is not under src/; its loop is the one the      *)
(* specification describes: suspend hook, physical read, resume hook, then *)
(* the bytes go to the state machine, until the end of the file or an      *)
(* error.  stream.pc is the position in that loop.                         *)
(***************************************************************************)
\* FILE *file = WRAP_FILE_TO(data, "r"); luxem_rawread_feed_file(...)
StreamCall ==
    /\ stream.pc = "idle"
    /\ stream' = [stream EXCEPT !.pc = "suspend"]
    /\ UNCHANGED <<reader, listener, events, attempts, fed, feeds, rpc, wvars, codec>>

\* compat_file_file returned NULL (no descriptor, or fdopen failed) and the
\* NULL goes to luxem_rawread_feed_file unchecked: what the engine does with
\* it is undefined, and nothing after it is modelled.
StreamCallWithoutFile ==
    /\ stream.pc = "idle"
    /\ stream' = [stream EXCEPT !.pc = "undefined"]
    /\ UNCHANGED <<reader, listener, events, attempts, fed, feeds, rpc, wvars, codec>>

StreamHook(r, name, pc) ==
    /\ reader' = r.self
    /\ stream' = [stream EXCEPT !.pc = pc, !.hooks = Append(@, name),
                                !.asserted = @ /\ r.asserted]

\* The engine calls the suspend hook before the physical read.
StreamSuspend ==
    /\ stream.pc = "suspend"
    /\ StreamHook(feed_unlock_gil(reader), "suspend", "read")
    /\ UNCHANGED <<listener, events, attempts, fed, feeds, rpc, wvars, codec>>

\* The physical read returns bytes, the end of the file, or fails.
StreamRead ==
    /\ stream.pc = "read"
    /\ \/ \E data \in SeqsUpTo(StreamBytes, MaxRead) :
              /\ data # <<>>
              /\ Len(fed) + Len(data) <= MaxStreamLen
              /\ stream' = [stream EXCEPT !.pc = "resume", !.reads = @ + 1,
                                          !.data = data, !.read = "bytes"]
       \/ stream' = [stream EXCEPT !.pc = "resume", !.reads = @ + 1,
                                   !.data = <<>>, !.read = "end"]
       \/ stream' = [stream EXCEPT !.pc = "resume", !.reads = @ + 1,
                                   !.data = <<>>, !.read = "failed"]
    /\ UNCHANGED <<reader, listener, events, attempts, fed, feeds, rpc, wvars, codec>>

\* The engine calls the resume hook when the read has returned.
StreamResume ==
    /\ stream.pc = "resume"
    /\ StreamHook(feed_lock_gil(reader), "resume", "deliver")
    /\ UNCHANGED <<listener, events, attempts, fed, feeds, rpc, wvars, codec>>

\* What was read goes to the state machine; the end of the file finishes
\* the document.  feed_file goes on to the next read, or returns, and then
\* Reader_feed returns None or, after format_context_error, NULL.
StreamDelivered(m) ==
    /\ reader' = [reader EXCEPT !.context = m.context]
    /\ events' = m.events
    /\ attempts' = m.attempts
    /\ fed' = fed \o stream.data
    /\ stream' =
           CASE ~m.returned ->
                  [stream EXCEPT !.pc = "returned", !.value = "NULL",
                                 !.exception = format_context_error(m.context)]
             [] stream.read = "end" ->
                  [stream EXCEPT !.pc = "returned", !.value = "None"]
             [] OTHER -> [stream EXCEPT !.pc = "suspend"]

StreamDeliver ==
    /\ stream.pc = "deliver"
    /\ IF stream.read = "failed"
       THEN StreamDelivered(rawread_fail(Machine(reader.context, Heard),
                                         "Could not read from the file"))
       ELSE StreamDelivered(luxem_rawread_feed(Machine(reader.context, Heard),
                                               stream.data, stream.read = "end"))
    /\ UNCHANGED <<listener, feeds, rpc, wvars, codec>>

StreamNext ==
    \/ StreamCall
    \/ StreamCallWithoutFile
    \/ StreamSuspend
    \/ StreamRead
    \/ StreamResume
    \/ StreamDeliver

SpecStream == Init /\ [][StreamNext]_vars

(***************************************************************************)
(* Specification SpecWriter: one Writer and the calls made on it.          *)
(***************************************************************************)
WriterTargets == {"NULL", "file", "callable"}

WriterStrings == {<<"a">>, <<"1">>}

\* What a caller passes to key, type and primitive: a string, or an object
\* that is not a string.
WriterArguments ==
    {[kind |-> "string", bytes |-> string] : string \in WriterStrings}
        \cup {[kind |-> "other", bytes |-> <<>>]}

WriterInit ==
    /\ ReaderStart
    /\ listener = [at |-> 0, how |-> "never"]
    /\ wargs \in [target : WriterTargets, pretty : BOOLEAN, use_spaces : BOOLEAN,
                  indent_multiple : 0..MaxIndent]
    /\ writer = Writer_init(Writer_new, wargs.target, wargs.pretty,
                            wargs.use_spaces, wargs.indent_multiple)
    /\ sinkfail \in SinkFails
    /\ (wargs.target # "callable" => sinkfail.at = 0)
    /\ written = NothingWritten
    /\ wlog = <<>>
    /\ wpc = "ready"
    /\ NoCodec

RECURSIVE Flatten(_)
Flatten(runs) ==
    IF runs = <<>> THEN <<>> ELSE Head(runs) \o Flatten(Tail(runs))

\* All bytes that have reached the Writer's sink, whichever it is.
Output(self, sunk) == self.context.buffer \o sunk.file \o Flatten(sunk.calls)

\* A method call has returned.  After a call in which the engine reported
\* an error the instance is not used again.
WriterReturns(r, method, argument) ==
    /\ writer' = r.self
    /\ written' = r.written
    /\ wlog' = Append(wlog,
           [method |-> method, argument |-> argument, value |-> r.value,
            bytes |-> r.bytes, exception |-> r.exception,
            emitted |-> SubSeq(Output(r.self, r.written),
                               Len(Output(writer, written)) + 1,
                               Len(Output(r.self, r.written)))])
    /\ wpc' = IF r.failed THEN "errored" ELSE "ready"
    /\ UNCHANGED <<wargs, sinkfail, rvars, codec>>

WriterCallable == wpc = "ready" /\ Len(wlog) < MaxCalls

NoArgument == [kind |-> "none", bytes |-> <<>>]

ObjectBegin ==
    /\ WriterCallable
    /\ WriterReturns(Writer_object_begin(writer), "object_begin", NoArgument)

ObjectEnd ==
    /\ WriterCallable
    /\ WriterReturns(Writer_object_end(writer), "object_end", NoArgument)

ArrayBegin ==
    /\ WriterCallable
    /\ WriterReturns(Writer_array_begin(writer), "array_begin", NoArgument)

ArrayEnd ==
    /\ WriterCallable
    /\ WriterReturns(Writer_array_end(writer), "array_end", NoArgument)

Key ==
    /\ WriterCallable
    /\ \E argument \in WriterArguments :
           WriterReturns(Writer_key(writer, argument), "key", argument)

Type ==
    /\ WriterCallable
    /\ \E argument \in WriterArguments :
           WriterReturns(Writer_type(writer, argument), "type", argument)

Primitive ==
    /\ WriterCallable
    /\ \E argument \in WriterArguments :
           WriterReturns(Writer_primitive(writer, argument), "primitive", argument)

Dump ==
    /\ WriterCallable
    /\ \E rendered \in BOOLEAN :
           WriterReturns(Writer_dump(writer, rendered), "dump", NoArgument)

WriterNext ==
    \/ ObjectBegin
    \/ ObjectEnd
    \/ ArrayBegin
    \/ ArrayEnd
    \/ Key
    \/ Type
    \/ Primitive
    \/ Dump

SpecWriter == WriterInit /\ [][WriterNext]_vars

(***************************************************************************)
(* Specification SpecCodec: one argument, handed to to_ascii16 and the     *)
(* result to from_ascii16, or handed to from_ascii16 directly.             *)
(***************************************************************************)
\* The values a byte of an argument takes: NUL, the characters 0 f g, DEL,
\* a UTF-8 continuation byte, a UTF-8 lead byte, and 0xFF.
CodecBytes == {0, 48, 102, 103, 127, 128, 194, 255}

\* The objects a caller passes under build py: strings (under Python 3 the
\* bytes are the string's UTF-8 encoding, so only well-formed UTF-8 occurs,
\* and a string with a lone surrogate has no encoding), and other objects.
CodecArguments(py) ==
    {[kind |-> "str", bytes |-> bytes] :
         bytes \in {b \in SeqsUpTo(CodecBytes, MaxBytesLen) : py = 2 \/ IsUtf8(b)}}
        \cup {[kind |-> "other", bytes |-> <<>>]}
        \cup (IF py = 3 THEN {[kind |-> "unencodable str", bytes |-> <<>>]} ELSE {})

CodecInit ==
    /\ ReaderStart
    /\ listener = [at |-> 0, how |-> "never"]
    /\ NoWriter
    /\ \E py \in {2, 3} : \E argument \in CodecArguments(py) :
           codec = [py |-> py, argument |-> argument, pc |-> "start",
                    encoded |-> NoCall, decoded |-> NoCall]

\* to_ascii16(argument)
Encode ==
    /\ codec.pc = "start"
    /\ codec' = [codec EXCEPT !.pc = "encoded",
                              !.encoded = translate_to_ascii16(codec.py, codec.argument)]
    /\ UNCHANGED <<rvars, wvars>>

\* from_ascii16(to_ascii16(argument))
DecodeEncoded ==
    /\ codec.pc = "encoded"
    /\ codec.encoded.value = "str"
    /\ codec' = [codec EXCEPT !.pc = "round trip",
                              !.decoded = translate_from_ascii16(codec.py,
                                              [kind |-> "str",
                                               bytes |-> codec.encoded.bytes])]
    /\ UNCHANGED <<rvars, wvars>>

\* from_ascii16(argument)
Decode ==
    /\ codec.pc = "start"
    /\ codec' = [codec EXCEPT !.pc = "decoded",
                              !.decoded = translate_from_ascii16(codec.py, codec.argument)]
    /\ UNCHANGED <<rvars, wvars>>

CodecNext == Encode \/ DecodeEncoded \/ Decode

SpecCodec == CodecInit /\ [][CodecNext]_vars

(***************************************************************************)
(* Reference runs and shorthands for the properties of the Reader.         *)
(***************************************************************************)
\* D fed whole, with finish = true, to a fresh Reader with the same listener.
WholeFeed(D) ==
    Reader_feed(Reader_new, [events |-> <<>>, attempts |-> 0], D, TRUE)

WellFormed(D) == WholeFeed(D).value = "int"

LastFeed == feeds[Len(feeds)]

\* The feed calls made so far are a complete chunked feed: the last call,
\* and only the last, had finish = true.
ChunkedFeedComplete == feeds # <<>> /\ LastFeed.finish

\* C1: for a well-formed document split into chunks in any way, the chunked
\* feed (finish = false on all but the last chunk) succeeds and the listener
\* has received exactly the events of the document fed whole to a fresh
\* Reader; and a chunk of a chunked feed fails only when no document that
\* begins with the bytes fed so far is well-formed.
C1_ChunkedFeedEqualsWholeFeed ==
    /\ (ChunkedFeedComplete /\ WellFormed(fed)) =>
           /\ LastFeed.value = "int"
           /\ events = WholeFeed(fed).events
    /\ (rpc = "errored" /\ ~LastFeed.finish) =>
           \A rest \in SeqsUpTo(FeedBytes, MaxDocLen - Len(fed)) :
               ~WellFormed(fed \o rest)

\* A word token split over three one-byte chunks was delivered as one
\* primitive by a chunked feed that succeeded.
C1_Witness ==
    /\ ChunkedFeedComplete
    /\ Len(feeds) = 3
    /\ \A i \in 1..3 : Len(feeds[i].data) = 1
    /\ LastFeed.value = "int"
    /\ \E e \in 1..Len(events) :
           events[e].kind = "primitive" /\ Len(events[e].string) = 2

\* C2: a feed with finish = false that raises no error returns the length
\* of its input, and every feed before the last of a chunked feed of a
\* well-formed document (each a structurally incomplete document) raises no
\* error; a feed of no data with finish = true on an instance that has a
\* structure open fails with a ValueError that carries a message, not with
\* the listener's own exception.
C2_IncompleteThenFinish ==
    /\ \A i \in 1..Len(feeds) :
           (~feeds[i].finish /\ feeds[i].value = "int") =>
               feeds[i].eaten = Len(feeds[i].data)
    /\ (ChunkedFeedComplete /\ WellFormed(fed)) =>
           \A i \in 1..Len(feeds) : feeds[i].value = "int"
    /\ (feeds # <<>> /\ LastFeed.finish /\ LastFeed.data = <<>>
            /\ LastFeed.open_before) =>
           /\ LastFeed.value = "NULL"
           /\ LastFeed.exception.type = "ValueError"
           /\ LastFeed.exception.message_length > 0

\* An open array with a dangling word was fed with finish = false and the
\* instance then fed no data with finish = true.
C2_Witness ==
    /\ Len(feeds) = 2
    /\ feeds[1].data = <<"[", "a">>
    /\ ~feeds[1].finish
    /\ feeds[1].eaten = 2
    /\ feeds[2].data = <<>>
    /\ feeds[2].finish
    /\ feeds[2].exception.type = "ValueError"

\* C3: once a listener callable has raised, the feed call it was invoked in
\* has returned NULL with the callable's own exception pending (no message,
\* no ValueError), and the raising invocation is the last one made.
C3_ListenerFailureAborts ==
    (listener.how = "raise" /\ attempts >= listener.at) =>
        /\ rpc = "errored"
        /\ LastFeed.value = "NULL"
        /\ LastFeed.exception.type = "raised by the callable"
        /\ LastFeed.exception.message_length = 0
        /\ attempts = listener.at
        /\ Len(events) = listener.at

\* The key callable raised while input that holds further events was still
\* unread.
C3_Witness ==
    /\ listener.how = "raise"
    /\ Len(feeds) = 1
    /\ LastFeed.data = <<"{", "a", ":", "a">>
    /\ LastFeed.finish
    /\ LastFeed.exception.type = "raised by the callable"
    /\ events[Len(events)].kind = "key"
    /\ reader.context.position = 2

\* C9: in every state of a feed on a file the hooks invoked so far alternate
\* suspend, resume, suspend, ... starting with suspend; a suspend precedes
\* each physical read and a resume follows it; the saved thread state is
\* non-empty exactly between a suspend and its resume; and when the call has
\* returned, with None or with any error, the hooks are paired and the saved
\* thread state is empty.  The hooks' asserts hold throughout.
C9_SuspendResumePaired ==
    stream.pc # "undefined" =>
        /\ \A i \in 1..Len(stream.hooks) :
               stream.hooks[i] = IF i % 2 = 1 THEN "suspend" ELSE "resume"
        /\ Len(stream.hooks) =
               CASE stream.pc = "read" -> 2 * stream.reads + 1
                 [] stream.pc = "resume" -> 2 * stream.reads - 1
                 [] OTHER -> 2 * stream.reads
        /\ (reader.thread_state = "saved") = (Len(stream.hooks) % 2 = 1)
        /\ stream.asserted
        /\ stream.pc = "returned" =>
               /\ reader.thread_state = "NULL"
               /\ Len(stream.hooks) % 2 = 0
               /\ Len(stream.hooks) >= 2

\* A feed on a file returned with a listener's exception after two reads.
C9_Witness ==
    /\ stream.pc = "returned"
    /\ stream.exception.type = "raised by the callable"
    /\ stream.hooks = <<"suspend", "resume", "suspend", "resume">>
    /\ reader.thread_state = "NULL"

(***************************************************************************)
(* Shorthands for the properties of the Writer, all read off the log of    *)
(* calls: the frames the successful calls have left open, and the last     *)
(* successful call that wrote.                                             *)
(***************************************************************************)
RECURSIVE Frames(_)
Frames(n) ==
    CASE n = 0 -> <<>>
      [] wlog[n].value # "self" -> Frames(n - 1)
      [] wlog[n].method = "object_begin" -> Append(Frames(n - 1), "object")
      [] wlog[n].method = "array_begin" -> Append(Frames(n - 1), "array")
      [] wlog[n].method \in {"object_end", "array_end"} -> Pop(Frames(n - 1))
      [] OTHER -> Frames(n - 1)

RECURSIVE LastMethod(_)
LastMethod(n) ==
    CASE n = 0 -> "none"
      [] wlog[n].value = "self" -> wlog[n].method
      [] OTHER -> LastMethod(n - 1)

StructuralError(call) ==
    /\ call.value = "NULL"
    /\ call.exception.type = "ValueError"
    /\ call.exception.message_length > 0

EndChecked(i, method, kind, other) ==
    wlog[i].method = method =>
        /\ (Frames(i - 1) = <<>> \/ Top(Frames(i - 1)) = other) =>
               StructuralError(wlog[i])
        /\ wlog[i].value = "self" => Top(Frames(i - 1)) = kind

\* C4: array_end fails with a structural error when no frame is open or the
\* innermost open frame is an object, object_end when no frame is open or
\* the innermost open frame is an array; each returns the writer only
\* against an open frame of its own kind.
C4_EndNeedsMatchingFrame ==
    \A i \in 1..Len(wlog) :
        /\ EndChecked(i, "array_end", "array", "object")
        /\ EndChecked(i, "object_end", "object", "array")

\* array_end was called with an object as the innermost open frame.
C4_Witness ==
    /\ Len(wlog) = 3
    /\ wlog[1].method = "array_begin" /\ wlog[1].value = "self"
    /\ wlog[2].method = "object_begin" /\ wlog[2].value = "self"
    /\ wlog[3].method = "array_end" /\ StructuralError(wlog[3])

KeyAwaited(n) ==
    Top(Frames(n)) = "object" /\ LastMethod(n) \notin {"key", "type"}

TypeAllowed(n) ==
    /\ LastMethod(n) # "type"
    /\ Top(Frames(n)) = "object" => LastMethod(n) = "key"

\* C5: key fails unless the innermost frame is an object that awaits a key,
\* and type fails unless a value is awaited that has no type yet.
C5_KeyAndTypeNeedTheirPlace ==
    \A i \in 1..Len(wlog) :
        /\ (wlog[i].method = "key" /\ ~KeyAwaited(i - 1)) =>
               /\ wlog[i].value = "NULL"
               /\ wlog[i].argument.kind = "string" => StructuralError(wlog[i])
        /\ (wlog[i].method = "type" /\ ~TypeAllowed(i - 1)) =>
               /\ wlog[i].value = "NULL"
               /\ wlog[i].argument.kind = "string" => StructuralError(wlog[i])

\* A second type was attached to a value inside an object, after its key.
C5_Witness ==
    /\ Len(wlog) = 4
    /\ wlog[1].method = "object_begin" /\ wlog[1].value = "self"
    /\ wlog[2].method = "key" /\ wlog[2].value = "self"
    /\ wlog[3].method = "type" /\ wlog[3].value = "self"
    /\ wlog[4].method = "type" /\ StructuralError(wlog[4])

\* C6: dump fails (TypeError) on a Writer constructed with a target,
\* whatever was called before, and returns bytes only on a Writer
\* constructed without one, whose sink is the buffer.
C6_DumpOnlyWithoutTarget ==
    \A i \in 1..Len(wlog) :
        wlog[i].method = "dump" =>
            /\ wargs.target # "NULL" =>
                   /\ wlog[i].value = "NULL"
                   /\ wlog[i].exception.type = "TypeError"
            /\ wlog[i].value = "bytes" =>
                   /\ wargs.target = "NULL"
                   /\ writer.context.out = "buffer"

\* dump was called on a Writer with a callable target after two calls that
\* wrote through it.
C6_Witness ==
    /\ wargs.target = "callable"
    /\ Len(wlog) = 3
    /\ wlog[1].value = "self" /\ wlog[2].value = "self"
    /\ written.calls # <<>>
    /\ wlog[3].method = "dump"
    /\ wlog[3].exception.type = "TypeError"

\* The bytes the successful calls among the first n have emitted, in order.
RECURSIVE EmittedBy(_)
EmittedBy(n) ==
    CASE n = 0 -> <<>>
      [] wlog[n].value = "self" -> EmittedBy(n - 1) \o wlog[n].emitted
      [] OTHER -> EmittedBy(n - 1)

IsPrefix(a, b) == Len(a) <= Len(b) /\ a = SubSeq(b, 1, Len(a))

Dumped(i) == wlog[i].method = "dump" /\ wlog[i].value = "bytes"

\* C7: on a Writer without a target, a dump that succeeds returns exactly
\* the bytes the successful calls before it have emitted, in call order; an
\* earlier dump is a prefix of a later one, and equal to it when nothing
\* was written in between.
C7_DumpReturnsAllWritten ==
    wargs.target = "NULL" =>
        /\ \A i \in 1..Len(wlog) : Dumped(i) => wlog[i].bytes = EmittedBy(i - 1)
        /\ \A i \in 1..Len(wlog) : \A j \in i..Len(wlog) :
               (Dumped(i) /\ Dumped(j)) =>
                   /\ IsPrefix(wlog[i].bytes, wlog[j].bytes)
                   /\ (\A k \in i..j : wlog[k].emitted = <<>>) =>
                          wlog[i].bytes = wlog[j].bytes

\* Two dumps with a write between them, after a first write.
C7_Witness ==
    /\ wargs.target = "NULL"
    /\ Len(wlog) = 4
    /\ wlog[1].method = "primitive" /\ wlog[1].value = "self"
    /\ Dumped(2) /\ wlog[2].bytes # <<>>
    /\ wlog[3].method = "primitive" /\ wlog[3].value = "self"
    /\ Dumped(4) /\ Len(wlog[4].bytes) > Len(wlog[2].bytes)

\* The lines of out from byte i on: depth is the number of frames open, k
\* the number of indent characters read at the start of the current line.
\* A line starts with exactly multiple * depth indent characters, where a
\* closing delimiter counts at the depth it returns to; every comma and
\* every opening delimiter ends its line.
RECURSIVE LinesIndented(_, _, _, _, _, _, _)
LinesIndented(out, i, depth, start, k, spacer, multiple) ==
    CASE i > Len(out) -> TRUE
      [] start /\ out[i] = spacer ->
           LinesIndented(out, i + 1, depth, TRUE, k + 1, spacer, multiple)
      [] start /\ out[i] \in {"}", "]"} ->
           /\ depth > 0
           /\ k = multiple * (depth - 1)
           /\ LinesIndented(out, i, depth, FALSE, 0, spacer, multiple)
      [] start ->
           /\ k = multiple * depth
           /\ LinesIndented(out, i, depth, FALSE, 0, spacer, multiple)
      [] out[i] = "\n" ->
           LinesIndented(out, i + 1, depth, TRUE, 0, spacer, multiple)
      [] out[i] \in {"{", "["} ->
           /\ i < Len(out) => out[i + 1] = "\n"
           /\ LinesIndented(out, i + 1, depth + 1, FALSE, 0, spacer, multiple)
      [] out[i] \in {"}", "]"} ->
           LinesIndented(out, i + 1, depth - 1, FALSE, 0, spacer, multiple)
      [] out[i] = "," ->
           /\ i < Len(out) => out[i + 1] = "\n"
           /\ LinesIndented(out, i + 1, depth, FALSE, 0, spacer, multiple)
      [] OTHER -> LinesIndented(out, i + 1, depth, FALSE, 0, spacer, multiple)

\* C8: with pretty-printing on, whatever has reached the sink consists of
\* lines that each hold one entry or one delimiter, indented by
\* indent_multiple * depth spaces (use_spaces) or tabs, a closing delimiter
\* at the depth of its parent.
C8_PrettyIndentation ==
    wargs.pretty =>
        LinesIndented(Output(writer, written), 1, 0, TRUE, 0,
                      IF wargs.use_spaces THEN " " ELSE "\t",
                      wargs.indent_multiple)

\* object_begin, key("a"), primitive("1"), object_end with tabs and an
\* indent multiple of 1: the pair is on its own line behind one tab and the
\* closing delimiter starts its line.
C8_Witness ==
    /\ wargs = [target |-> "NULL", pretty |-> TRUE, use_spaces |-> FALSE,
                indent_multiple |-> 1]
    /\ Len(wlog) = 4
    /\ wlog[1].method = "object_begin"
    /\ wlog[2].method = "key" /\ wlog[2].argument.bytes = <<"a">>
    /\ wlog[3].method = "primitive" /\ wlog[3].argument.bytes = <<"1">>
    /\ wlog[4].method = "object_end" /\ wlog[4].value = "self"
    /\ writer.context.buffer =
           <<"{", "\n", "\t", "a", ":", " ", "1", ",", "\n", "}", ",", "\n">>

NonHex(chars) == {i \in 1..Len(chars) : ~IsHexDigit(chars[i])}

Malformed(chars) == Len(chars) % 2 = 1 \/ NonHex(chars) /= {}

\* The offset (from 0) of the first character that is not a hexadecimal
\* digit, or else of the last character, which has no partner.
FirstOffending(chars) ==
    IF NonHex(chars) /= {}
    THEN (CHOOSE i \in NonHex(chars) : \A j \in NonHex(chars) : i <= j) - 1
    ELSE Len(chars) - 1

ReportsOffset(message, offset) ==
    \E text \in {"Invalid ascii16 character", "Incomplete ascii16 pair"} :
        message = TranscoderMessage(text, offset)

\* C11: from_ascii16 of a string of odd length, or with a character that is
\* no hexadecimal digit, raises a ValueError whose message names the offset
\* of the first offending character; from_ascii16 of every other string
\* returns a string.
C11_FromAscii16Rejects ==
    (codec.pc = "decoded" /\ codec.argument.kind = "str") =>
        IF Malformed(codec.argument.bytes)
        THEN /\ codec.decoded.value = "NULL"
             /\ codec.decoded.exception = "ValueError"
             /\ ReportsOffset(codec.decoded.message,
                              FirstOffending(codec.argument.bytes))
        ELSE /\ codec.decoded.value = "str"
             /\ codec.decoded.exception = "none"

(***************************************************************************)
(* A failing sink.                                                         *)
(***************************************************************************)
\* The target callable has raised while it was handed a byte run.
SinkRaised ==
    /\ wargs.target = "callable"
    /\ sinkfail.how = "raise"
    /\ sinkfail.at >= 1
    /\ written.attempts >= sinkfail.at

\* C12: when the target callable of a Writer raises, the method that was
\* writing returns NULL and not the writer, the exception of the callable
\* passes through with no message made for it, the engine's error is the
\* marker with length 0, and the callable is not called again.
C12_SinkFailurePassesThrough ==
    SinkRaised =>
        /\ written.attempts = sinkfail.at
        /\ Len(written.calls) = sinkfail.at
        /\ wlog[Len(wlog)].value = "NULL"
        /\ wlog[Len(wlog)].exception.type = "raised by the callable"
        /\ wlog[Len(wlog)].exception.message_length = 0
        /\ wlog[Len(wlog)].exception.asserted
        /\ luxem_rawwrite_get_error(writer.context) =
               [pointer |-> exception_marker, length |-> 0]
        /\ wpc = "errored"

\* primitive("a") on a compact Writer whose callable raised on the first
\* run: the second run, the separator, was never handed over.
C12_Witness ==
    /\ SinkRaised
    /\ sinkfail.at = 1
    /\ ~wargs.pretty
    /\ wlog[Len(wlog)].method = "primitive"
    /\ written.calls = <<<<"a">>>>
    /\ wlog[Len(wlog)].value = "NULL"

(***************************************************************************)
(* Counts and position.                                                    *)
(***************************************************************************)
\* The sum of the counts the first n feed calls returned.
RECURSIVE Consumed(_)
Consumed(n) == IF n = 0 THEN 0 ELSE Consumed(n - 1) + feeds[n].eaten

\* The position of the context when the i-th feed call ended.
PositionAfter(i) ==
    IF i < Len(feeds)
    THEN feeds[i + 1].position_before
    ELSE luxem_rawread_get_position(reader.context)

AwaitedAfterValue(nesting) ==
    IF nesting # <<>> /\ Top(nesting) = "object" THEN "key" ELSE "value"

\* Whether the events from the i-th on are each valid where they come,
\* given the open structures and what is awaited: "key", "value" (a type
\* or a value) or "typed" (a value, its type has been given).
RECURSIVE EventsValidFrom(_, _, _, _)
EventsValidFrom(heard, i, nesting, awaited) ==
    IF i > Len(heard) THEN TRUE
    ELSE CASE heard[i].kind = "object_begin" ->
                /\ awaited \in {"value", "typed"}
                /\ EventsValidFrom(heard, i + 1, Append(nesting, "object"), "key")
           [] heard[i].kind = "array_begin" ->
                /\ awaited \in {"value", "typed"}
                /\ EventsValidFrom(heard, i + 1, Append(nesting, "array"), "value")
           [] heard[i].kind = "object_end" ->
                /\ nesting # <<>>
                /\ Top(nesting) = "object"
                /\ awaited = "key"
                /\ EventsValidFrom(heard, i + 1, Pop(nesting),
                                   AwaitedAfterValue(Pop(nesting)))
           [] heard[i].kind = "array_end" ->
                /\ nesting # <<>>
                /\ Top(nesting) = "array"
                /\ awaited = "value"
                /\ EventsValidFrom(heard, i + 1, Pop(nesting),
                                   AwaitedAfterValue(Pop(nesting)))
           [] heard[i].kind = "key" ->
                /\ nesting # <<>>
                /\ Top(nesting) = "object"
                /\ awaited = "key"
                /\ EventsValidFrom(heard, i + 1, nesting, "value")
           [] heard[i].kind = "type" ->
                /\ awaited = "value"
                /\ EventsValidFrom(heard, i + 1, nesting, "typed")
           [] heard[i].kind = "primitive" ->
                /\ awaited \in {"value", "typed"}
                /\ EventsValidFrom(heard, i + 1, nesting, AwaitedAfterValue(nesting))
           [] OTHER -> FALSE

\* C14: whatever bytes are fed, in whatever chunks, the events handed to
\* the listener so far form a valid sequence: an end closes the open
\* structure of its kind, a key comes only where an object awaits one, a
\* type at most once per value and only before the value.
C14_EventsWellNested == EventsValidFrom(events, 1, <<>>, "value")

\* An array with one value, fed in more than one chunk.
C14_Witness ==
    /\ Len(feeds) >= 2
    /\ Len(events) = 3
    /\ events[1].kind = "array_begin"
    /\ events[2].kind = "primitive"
    /\ events[3].kind = "array_end"

(***************************************************************************)
(* The window between suspend and resume.                                  *)
(***************************************************************************)
ListenerInvoked == events' # events \/ attempts' # attempts

\* C15: while a feed on a file has the thread state saved, between
\* feed_unlock_gil and feed_lock_gil, no step calls a listener or changes
\* the parser's context; a listener is only ever called with the saved
\* thread state empty.
C15_NoParsingWhileSuspended ==
    [][/\ reader.thread_state = "saved" =>
              /\ ~ListenerInvoked
              /\ reader'.context = reader.context
       /\ ListenerInvoked =>
              /\ reader.thread_state = "NULL"
              /\ reader'.thread_state = "NULL"]_vars

\* A second read is outstanding, the thread state saved, and the listener
\* has heard the events of the first read.
C15_Witness ==
    /\ stream.pc = "read"
    /\ reader.thread_state = "saved"
    /\ stream.reads = 1
    /\ Len(events) >= 1
    /\ Len(stream.hooks) = 3

(***************************************************************************)
(* The offset in a described error.                                        *)
(***************************************************************************)
\* A translate function of the listener has returned failure.
ListenerFailed ==
    listener.how # "never" /\ listener.at >= 1 /\ attempts >= listener.at

\* C16: a feed call that fails with an error of the engine raises a
\* ValueError with a message that is not empty and an offset counted from
\* the construction of the Reader: it lies between the bytes the earlier
\* calls consumed and that count plus the length of this call's data, and
\* it is the offset at which the same bytes fed whole to a fresh Reader
\* fail.
C16_OffsetIsCumulative ==
    \A i \in 1..Len(feeds) :
        (feeds[i].exception.type = "ValueError" /\ ~ListenerFailed) =>
            /\ feeds[i].value = "NULL"
            /\ feeds[i].exception.message_length > 0
            /\ feeds[i].exception.asserted
            /\ feeds[i].position_before = Consumed(i - 1)
            /\ feeds[i].exception.offset >= Consumed(i - 1)
            /\ feeds[i].exception.offset <= Consumed(i - 1) + Len(feeds[i].data)
            /\ feeds[i].exception.offset = WholeFeed(fed).exception.offset
            /\ feeds[i].exception.message = WholeFeed(fed).exception.message

\* The second call was handed one byte and failed on it at offset 3.
C16_Witness ==
    /\ ~ListenerFailed
    /\ Len(feeds) = 2
    /\ feeds[1].value = "int"
    /\ feeds[1].eaten = 3
    /\ Len(feeds[2].data) = 1
    /\ feeds[2].exception.type = "ValueError"
    /\ feeds[2].exception.offset = 3

(***************************************************************************)
(* Compact output.                                                         *)
(***************************************************************************)
\* What a successful call writes when nothing is inserted.
CompactRun(call) ==
    CASE call.method = "object_begin" -> <<"{">>
      [] call.method = "array_begin" -> <<"[">>
      [] call.method = "object_end" -> <<"}", ",">>
      [] call.method = "array_end" -> <<"]", ",">>
      [] call.method = "key" -> call.argument.bytes \o <<":">>
      [] call.method = "type" -> <<"(">> \o call.argument.bytes \o <<")">>
      [] call.method = "primitive" -> call.argument.bytes \o <<",">>
      [] OTHER -> <<>>

\* C17: a Writer constructed without pretty = true never writes a space, a
\* tab or a line break of its own: every successful call writes its compact
\* run and nothing else, and use_spaces and indent_multiple never reach the
\* engine, whose pretty-print configuration stays as constructed.
C17_CompactUnlessPretty ==
    ~wargs.pretty =>
        /\ \A i \in 1..Len(Output(writer, written)) :
               Output(writer, written)[i] \notin {" ", "\t", "\n"}
        /\ \A i \in 1..Len(wlog) :
               wlog[i].value = "self" => wlog[i].emitted = CompactRun(wlog[i])
        /\ writer.context.pretty = luxem_rawwrite_construct.pretty
        /\ writer.context.indent = luxem_rawwrite_construct.indent
        /\ writer.context.multiple = luxem_rawwrite_construct.multiple

\* object_begin, key("a"), primitive("1"), object_end on a Writer without
\* pretty but with use_spaces and an indent multiple of 2.
C17_Witness ==
    /\ wargs = [target |-> "NULL", pretty |-> FALSE, use_spaces |-> TRUE,
                indent_multiple |-> 2]
    /\ Len(wlog) = 4
    /\ wlog[4].method = "object_end"
    /\ wlog[4].value = "self"
    /\ writer.context.buffer = <<"{", "a", ":", "1", ",", "}", ",">>

(***************************************************************************)
(* The sink.                                                               *)
(***************************************************************************)
\* The sink Writer_init chooses for a target.
SinkOf(target) ==
    CASE target = "NULL" -> "buffer"
      [] target = "file" -> "file"
      [] OTHER -> "callback"

\* C18: the engine's sink is the one the target alone selects, whatever the
\* other arguments and whatever calls were made and however they ended;
\* the Writer's target and file stay as constructed; and every byte written
\* is in that sink, the two others empty.
C18_OneSinkFixed ==
    /\ writer.context.out = SinkOf(wargs.target)
    /\ writer.target = wargs.target
    /\ writer.file = (IF wargs.target = "file" THEN "FILE" ELSE "NULL")
    /\ writer.context.out # "buffer" => writer.context.buffer = <<>>
    /\ writer.context.out # "file" => written.file = <<>>
    /\ writer.context.out # "callback" =>
           written.calls = <<>> /\ written.attempts = 0

\* A Writer on a callable wrote, then a call failed: the bytes are with the
\* callable and the sink is still the callback.
C18_Witness ==
    /\ wargs.target = "callable"
    /\ wargs.pretty
    /\ Len(wlog) >= 2
    /\ wlog[1].value = "self"
    /\ wlog[Len(wlog)].value = "NULL"
    /\ written.calls # <<>>
    /\ writer.context.out = "callback"
    /\ writer.context.buffer = <<>>

(***************************************************************************)
(* The two shapes of a reported error.                                     *)
(***************************************************************************)
\* The marker with length 0, or a message that is not empty.
ErrorShaped(error) ==
    \/ error.pointer = exception_marker /\ error.length = 0
    \/ error.pointer # exception_marker /\ error.length > 0

\* A translate_rawwrite_write call has returned failure.
SinkFailed ==
    /\ wargs.target = "callable"
    /\ sinkfail.how # "never"
    /\ sinkfail.at >= 1
    /\ written.attempts >= sinkfail.at

\* C19: when feed or a Writer method has reported a failure of the engine,
\* the engine's error is the marker with length 0 or a message of length
\* above 0, so that the assert in the code that formats the error holds;
\* and whenever a translate function of a listener or of the sink has
\* returned failure, the error is the marker.
C19_ErrorIsMarkerOrMessage ==
    /\ rpc = "errored" =>
           /\ ErrorShaped(luxem_rawread_get_error(reader.context))
           /\ LastFeed.exception.asserted
    /\ (stream.pc = "returned" /\ stream.value = "NULL") =>
           /\ ErrorShaped(luxem_rawread_get_error(reader.context))
           /\ stream.exception.asserted
    /\ \A i \in 1..Len(wlog) : wlog[i].exception.asserted
    /\ ListenerFailed =>
           luxem_rawread_get_error(reader.context) =
               [pointer |-> exception_marker, length |-> 0]
    /\ SinkFailed =>
           luxem_rawwrite_get_error(writer.context) =
               [pointer |-> exception_marker, length |-> 0]

(***************************************************************************)
(* Specification SpecRoundTrip: a Writer without a target is written to,   *)
(* and what dump() returns is fed, with finish = true, to a fresh Reader.  *)
(***************************************************************************)
RoundTripInit == WriterInit /\ wargs.target = "NULL"

\* The calls on the Writer, made before the Reader is fed.
RoundTripWrite == rpc = "ready" /\ WriterNext

\* reader.feed(writer.dump())
RoundTripFeed ==
    /\ Writer_dump(writer, TRUE).value = "bytes"
    /\ Feed(Writer_dump(writer, TRUE).bytes, TRUE)

RoundTripNext == RoundTripWrite \/ RoundTripFeed

SpecRoundTrip == RoundTripInit /\ [][RoundTripNext]_vars

\* The events the first n calls on the Writer stand for, those that
\* succeeded, as a listener would hear them.
RECURSIVE WrittenEvents(_)
WrittenEvents(n) ==
    CASE n = 0 -> <<>>
      [] wlog[n].value = "self" ->
           Append(WrittenEvents(n - 1),
                  [kind |-> wlog[n].method, string |-> wlog[n].argument.bytes])
      [] OTHER -> WrittenEvents(n - 1)

\* Every structure written is closed and no key or type awaits its value.
WrittenBalanced ==
    /\ writer.context.stack = <<>>
    /\ writer.context.state = "element"
    /\ EventsValidFrom(WrittenEvents(Len(wlog)), 1, <<>>, "value")

====
